---- MODULE Spec2Model ----
(***************************************************************************)
(* Schnorr proof of knowledge of a discrete logarithm (Fiat-Shamir), as    *)
(* implemented in src/src/dlog_proof.rs, src/src/serialization.rs and      *)
(* src/src/main.rs.                                                        *)
(*                                                                         *)
(* The group is the curve y^2 = x^3 + 7 of secp256k1 taken over the small  *)
(* prime field F_13, where it has prime order 7; scalars, field elements   *)
(* and digests keep the 32-byte big-endian layout of the k256 types.       *)
(* SHA-256 is an arbitrary function of its input bytes: the table sha256   *)
(* holds the digest of every byte string hashed so far, and the digest of  *)
(* a byte string hashed for the first time is any sampled digest.          *)
(***************************************************************************)
EXTENDS Integers, Sequences, FiniteSets, TLC

VARIABLES
    ctx,        \* main's locals: [sid, pid, x, y]
    sha256,     \* digest of every byte string hashed so far
    r,          \* the scalar prove sampled, NONE before prove
    c,          \* what hash_points returned to prove, NONE before prove
    proof,      \* what prove returned, NONE before prove
    call,       \* the arguments of the verify call made, NONE before it
    result,     \* what that verify call returned
    parsed,     \* what print_proof_json read back from the JSON text
    hex_str,    \* the text handed to a decoder: [kind, text]
    decoded,    \* what the decoder returned for hex_str
    tuples,     \* two challenge inputs <<sid, pid, G, y, t>>
    hashed      \* the byte strings hash_points feeds to the hash for them

vars == <<ctx, sha256, r, c, proof, call, result, parsed, hex_str, decoded, tuples, hashed>>

----------------------------------------------------------------------------
\* Bounds of the model

\* sid ranges over the prefixes of "sid" of at most this length
MaxSidLen == 1
\* the secret x ranges over 0..MaxSecret
MaxSecret == 2
\* digests range over the 32-byte encodings of 0..MaxDigest and of 256
MaxDigest == 7
\* the numbers a decoder's input encodes range over 0..MaxEncoded
MaxEncoded == 14

----------------------------------------------------------------------------
\* Result<T, E> and Option

Ok(v) == [tag |-> "ok", val |-> v]
Err(e) == [tag |-> "err", val |-> e]
NONE == [tag |-> "none"]
IsOk(res) == res.tag = "ok"
IsErr(res) == res.tag = "err"
IsNone(res) == res.tag = "none"

----------------------------------------------------------------------------
\* The group and its scalar field (k256)

\* modulus of the base field
FIELD_P == 13
\* the curve's constant: y^2 = x^3 + CURVE_B
CURVE_B == 7
\* order of the group, modulus of Scalar
ORDER == 7
\* width in bytes of a scalar, a coordinate and a digest
FIELD_BYTES == 32

Scalar == 0..(ORDER - 1)

IDENTITY == [inf |-> TRUE, x |-> 0, y |-> 0]
Affine(px, py) == [inf |-> FALSE, x |-> px, y |-> py]
GENERATOR == Affine(7, 5)

OnCurve(px, py) == (py * py) % FIELD_P = (px * px * px + CURVE_B) % FIELD_P

ProjectivePoint ==
    {IDENTITY} \cup {Affine(px, py) : px \in 0..(FIELD_P - 1), py \in 0..(FIELD_P - 1)}

CurvePoints == {pt \in ProjectivePoint : pt.inf \/ OnCurve(pt.x, pt.y)}

FieldInv(a) == CHOOSE i \in 1..(FIELD_P - 1) : (i * a) % FIELD_P = 1

\* point addition
PointAdd(p1, p2) ==
    IF p1.inf THEN p2
    ELSE IF p2.inf THEN p1
    ELSE IF p1.x = p2.x /\ (p1.y + p2.y) % FIELD_P = 0 THEN IDENTITY
    ELSE LET lam == IF p1.x = p2.x
                    THEN (3 * p1.x * p1.x * FieldInv((2 * p1.y) % FIELD_P)) % FIELD_P
                    ELSE ((p2.y - p1.y + FIELD_P)
                            * FieldInv((p2.x - p1.x + FIELD_P) % FIELD_P)) % FIELD_P
             x3 == (lam * lam + 2 * FIELD_P - p1.x - p2.x) % FIELD_P
             y3 == (lam * (p1.x - x3 + FIELD_P) + FIELD_P - p1.y) % FIELD_P
         IN Affine(x3, y3)

RECURSIVE Multiple(_, _)
\* pt added to itself k times
Multiple(pt, k) == IF k = 0 THEN IDENTITY ELSE PointAdd(Multiple(pt, k - 1), pt)

\* the multiples of every point of the curve, computed once
Multiples == [pt \in CurvePoints |-> [k \in Scalar |-> Multiple(pt, k)]]

\* scalar multiplication point * k
PointMul(pt, k) == Multiples[pt][k]

\* scalar field arithmetic, always reduced
ScalarAdd(a, b) == (a + b) % ORDER
ScalarMul(a, b) == (a * b) % ORDER

----------------------------------------------------------------------------
\* Byte encodings

RECURSIVE BigEndian(_, _)
\* n as w bytes, most significant first
BigEndian(n, w) == IF w = 0 THEN <<>> ELSE Append(BigEndian(n \div 256, w - 1), n % 256)

RECURSIVE LessBE(_, _)
\* a < b as big-endian integers of the same width
LessBE(a, b) ==
    IF a = <<>> THEN FALSE
    ELSE IF Head(a) # Head(b) THEN Head(a) < Head(b)
    ELSE LessBE(Tail(a), Tail(b))

RECURSIVE IntegerBE(_)
\* the integer a big-endian byte string encodes
IntegerBE(bytes) ==
    IF bytes = <<>> THEN 0
    ELSE 256 * IntegerBE(SubSeq(bytes, 1, Len(bytes) - 1)) + bytes[Len(bytes)]

\* the value of a big-endian byte string known to be below 256
LowByte(bytes) == bytes[Len(bytes)]

\* Scalar::to_repr / to_bytes
to_repr(k) == BigEndian(k, FIELD_BYTES)

\* from_repr reducing the integer modulo the group order
from_repr_reduce(bytes) == Ok(IntegerBE(bytes) % ORDER)

\* Scalar::from_repr: None unless the integer is below the group order
from_repr(bytes) ==
    IF LessBE(bytes, BigEndian(ORDER, FIELD_BYTES)) THEN Ok(LowByte(bytes)) ELSE NONE

\* to_le_bytes without the zero bytes at the end
to_le_bytes_trimmed(n) ==
    IF n = 0 THEN <<>> ELSE IF n < 256 THEN <<n>> ELSE <<n % 256, (n \div 256) % 256>>

\* u32::to_le_bytes
to_le_bytes(n) ==
    <<n % 256, (n \div 256) % 256, (n \div 65536) % 256, (n \div 16777216) % 256>>

\* AffinePoint::to_encoded_point(true): SEC1, the identity is the single byte 00
to_encoded_point(pt) ==
    IF pt.inf THEN <<0>> ELSE <<2 + (pt.y % 2)>> \o BigEndian(pt.x, FIELD_BYTES)

\* AffinePoint::to_encoded_point(false)
to_encoded_point_uncompressed(pt) ==
    IF pt.inf THEN <<0>>
    ELSE <<4>> \o BigEndian(pt.x, FIELD_BYTES) \o BigEndian(pt.y, FIELD_BYTES)

\* the compressed encoding in a fixed 33 bytes, zeros after the identity's 00
Padded(pt) ==
    LET encoded == to_encoded_point(pt)
    IN [i \in 1..(FIELD_BYTES + 1) |-> IF i <= Len(encoded) THEN encoded[i] ELSE 0]

\* the 33 bytes of every point of the curve, computed once
PaddedEncodings == [pt \in CurvePoints |-> Padded(pt)]

\* GroupEncoding::to_bytes
to_bytes(pt) == PaddedEncodings[pt]

----------------------------------------------------------------------------
\* Challenge derivation

DOMAIN_SEPARATOR == <<83, 67, 72, 78, 79, 82, 82, 95, 80, 82, 79, 79, 70>>

RECURSIVE PointBytes(_)
PointBytes(points) ==
    IF points = <<>> THEN <<>> ELSE to_bytes(Head(points)) \o PointBytes(Tail(points))

\* the hasher's input with the pid left out
HasherInput_no_pid(sid, pid, points) == DOMAIN_SEPARATOR \o sid \o PointBytes(points)

\* the bytes hash_points feeds to the hasher
HasherInput(sid, pid, points) ==
    DOMAIN_SEPARATOR \o sid \o to_le_bytes(pid) \o PointBytes(points)

\* hash_points, with sha the hash function
hash_points(sid, pid, points, sha) ==
    LET challenge == sha[HasherInput(sid, pid, points)]
        scalar_option == from_repr(challenge)
    IN IF IsNone(scalar_option)
       THEN Err("Failed to convert hash to scalar")
       ELSE Ok(scalar_option.val)

----------------------------------------------------------------------------
\* prove and verify

DLogProof(t, s) == [t |-> t, s |-> s]

\* prove with s = r + c
prove_no_secret(sid, pid, x, y, base_point, rnd, sha) ==
    LET t == PointMul(base_point, rnd)
        ch == hash_points(sid, pid, <<base_point, y, t>>, sha)
    IN IF IsErr(ch) THEN ch ELSE Ok(DLogProof(t, ScalarAdd(rnd, ch.val)))

\* prove, with rnd the scalar Scalar::random returns
prove(sid, pid, x, y, base_point, rnd, sha) ==
    LET t == PointMul(base_point, rnd)
        ch == hash_points(sid, pid, <<base_point, y, t>>, sha)
    IN IF IsErr(ch) THEN ch
       ELSE Ok(DLogProof(t, ScalarAdd(rnd, ScalarMul(ch.val, x))))

\* verify comparing the x-coordinates of the two sides only
verify_x_only(self, sid, pid, y, base_point, sha) ==
    LET ch == hash_points(sid, pid, <<base_point, y, self.t>>, sha)
    IN IF IsErr(ch) THEN ch
       ELSE LET lhs == PointMul(base_point, self.s)
                rhs == PointAdd(self.t, PointMul(y, ch.val))
            IN Ok(lhs.inf = rhs.inf /\ lhs.x = rhs.x)

\* verify with the right side t + c * G
verify_base(self, sid, pid, y, base_point, sha) ==
    LET ch == hash_points(sid, pid, <<base_point, y, self.t>>, sha)
    IN IF IsErr(ch) THEN ch
       ELSE LET lhs == PointMul(base_point, self.s)
                rhs == PointAdd(self.t, PointMul(base_point, ch.val))
            IN Ok(lhs = rhs)

\* verify answering false when the challenge cannot be derived
verify_swallow(self, sid, pid, y, base_point, sha) ==
    LET ch == hash_points(sid, pid, <<base_point, y, self.t>>, sha)
    IN IF IsErr(ch) THEN Ok(FALSE)
       ELSE LET lhs == PointMul(base_point, self.s)
                rhs == PointAdd(self.t, PointMul(y, ch.val))
            IN Ok(lhs = rhs)

verify(self, sid, pid, y, base_point, sha) ==
    LET ch == hash_points(sid, pid, <<base_point, y, self.t>>, sha)
    IN IF IsErr(ch) THEN ch
       ELSE LET lhs == PointMul(base_point, self.s)
                rhs == PointAdd(self.t, PointMul(y, ch.val))
            IN Ok(lhs = rhs)

----------------------------------------------------------------------------
\* Hexadecimal text (crate hex); a text is a sequence of characters

HEX_CHARS_LOWER ==
    <<"0", "1", "2", "3", "4", "5", "6", "7", "8", "9", "a", "b", "c", "d", "e", "f">>
HEX_CHARS_UPPER ==
    <<"0", "1", "2", "3", "4", "5", "6", "7", "8", "9", "A", "B", "C", "D", "E", "F">>

RECURSIVE encode(_)
\* hex::encode: two lowercase digits per byte
encode(bytes) ==
    IF bytes = <<>> THEN <<>>
    ELSE <<HEX_CHARS_LOWER[(Head(bytes) \div 16) + 1], HEX_CHARS_LOWER[(Head(bytes) % 16) + 1]>>
            \o encode(Tail(bytes))

\* the value of a hexadecimal digit of either case, -1 for any other character
val(ch) ==
    IF \E i \in 1..16 : HEX_CHARS_LOWER[i] = ch
    THEN (CHOOSE i \in 1..16 : HEX_CHARS_LOWER[i] = ch) - 1
    ELSE IF \E i \in 1..16 : HEX_CHARS_UPPER[i] = ch
    THEN (CHOOSE i \in 1..16 : HEX_CHARS_UPPER[i] = ch) - 1
    ELSE -1

\* hex::decode: an error for an odd length or a character that is no digit
decode(text) ==
    IF Len(text) % 2 # 0 THEN Err("OddLength")
    ELSE IF \E i \in 1..Len(text) : val(text[i]) < 0 THEN Err("InvalidHexCharacter")
    ELSE Ok([i \in 1..(Len(text) \div 2) |-> 16 * val(text[2 * i - 1]) + val(text[2 * i])])

----------------------------------------------------------------------------
\* SEC1 point parsing (crates sec1, k256)

\* sec1::Tag::message_len for the tags Tag::from_u8 accepts
message_len(tag) ==
    CASE tag = 0 -> 1
      [] tag \in {2, 3, 5} -> 1 + FIELD_BYTES
      [] tag = 4 -> 1 + 2 * FIELD_BYTES

\* EncodedPoint::from_bytes: the tag is known and the length is the tag's
EncodedPoint_from_bytes(bytes) ==
    IF bytes = <<>> \/ bytes[1] \notin {0, 2, 3, 4, 5} THEN Err("PointEncoding")
    ELSE IF Len(bytes) # message_len(bytes[1]) THEN Err("PointEncoding")
    ELSE Ok(bytes)

\* FieldElement::from_bytes: None unless the integer is below the field modulus
FieldElement_from_bytes(bytes) ==
    IF LessBE(bytes, BigEndian(FIELD_P, FIELD_BYTES)) THEN Ok(LowByte(bytes)) ELSE NONE

\* decompress taking either y of the x
decompress_any_y(x_bytes, y_is_odd) ==
    LET fx == FieldElement_from_bytes(x_bytes)
    IN IF IsNone(fx) THEN NONE
       ELSE LET ys == {py \in 0..(FIELD_P - 1) : OnCurve(fx.val, py)}
            IN IF ys = {} THEN NONE ELSE Ok(Affine(fx.val, CHOOSE py \in ys : TRUE))

\* AffinePoint::decompress: the point of this x whose y has the given parity
decompress(x_bytes, y_is_odd) ==
    LET fx == FieldElement_from_bytes(x_bytes)
    IN IF IsNone(fx) THEN NONE
       ELSE LET ys == {py \in 0..(FIELD_P - 1) :
                          OnCurve(fx.val, py) /\ (py % 2 = 1) = y_is_odd}
            IN IF ys = {} THEN NONE ELSE Ok(Affine(fx.val, CHOOSE py \in ys : TRUE))

\* AffinePoint::from_encoded_point
from_encoded_point(encoded) ==
    LET tag == encoded[1]
        x_bytes == SubSeq(encoded, 2, 1 + FIELD_BYTES)
    IN CASE tag = 0 -> Ok(IDENTITY)
         [] tag = 5 -> NONE
         [] tag \in {2, 3} -> decompress(x_bytes, tag = 3)
         [] tag = 4 ->
              LET fx == FieldElement_from_bytes(x_bytes)
                  fy == FieldElement_from_bytes(
                            SubSeq(encoded, 2 + FIELD_BYTES, 1 + 2 * FIELD_BYTES))
              IN IF IsNone(fx) \/ IsNone(fy) THEN NONE
                 ELSE IF OnCurve(fx.val, fy.val) THEN Ok(Affine(fx.val, fy.val))
                 ELSE NONE

----------------------------------------------------------------------------
\* The codec of the two proof fields

serialize_point_hex(point) == encode(to_encoded_point(point))

deserialize_point_hex(text) ==
    LET bytes == decode(text)
    IN IF IsErr(bytes) THEN Err("Invalid hex encoding")
       ELSE LET encoded_point == EncodedPoint_from_bytes(bytes.val)
            IN IF IsErr(encoded_point) THEN Err("Invalid point bytes")
               ELSE LET affine == from_encoded_point(encoded_point.val)
                    IN IF ~IsNone(affine) THEN Ok(affine.val)
                       ELSE Err("Invalid point encoding")

serialize_scalar_hex(scalar) == encode(to_repr(scalar))

\* deserialize_scalar_hex reading the last 32 bytes of any longer input
deserialize_scalar_hex_any_len(text) ==
    LET bytes == decode(text)
    IN IF IsErr(bytes) THEN Err("Invalid hex encoding")
       ELSE IF Len(bytes.val) < FIELD_BYTES THEN Err("Invalid length for Scalar")
       ELSE LET scalar == from_repr(SubSeq(bytes.val, Len(bytes.val) - FIELD_BYTES + 1,
                                           Len(bytes.val)))
            IN IF IsNone(scalar) THEN Err("Invalid Scalar value") ELSE Ok(scalar.val)

deserialize_scalar_hex(text) ==
    LET bytes == decode(text)
    IN IF IsErr(bytes) THEN Err("Invalid hex encoding")
       ELSE IF Len(bytes.val) # FIELD_BYTES THEN Err("Invalid length for Scalar")
       ELSE LET scalar == from_repr(bytes.val)
            IN IF IsNone(scalar) THEN Err("Invalid Scalar value") ELSE Ok(scalar.val)

\* serde_json::to_string of a DLogProof: the two fields as hex text
to_string(pf) == [t |-> serialize_point_hex(pf.t), s |-> serialize_scalar_hex(pf.s)]

\* serde_json::from_str of a DLogProof: field t, then field s
from_str(json) ==
    LET t == deserialize_point_hex(json.t)
        s == deserialize_scalar_hex(json.s)
    IN IF IsErr(t) THEN t ELSE IF IsErr(s) THEN s ELSE Ok(DLogProof(t.val, s.val))

----------------------------------------------------------------------------
\* The inputs of the model

\* main's sid, "sid"
SID == <<115, 105, 100>>

Sids == {SubSeq(SID, 1, n) : n \in 0..MaxSidLen}
\* main's pid, and the next one
PID == 1
Pids == {PID, PID + 1}
Secrets == 0..MaxSecret
\* the y a caller passes with the secret x: x * G, or the point of the next secret
PublicKey(x, wrong) == PointMul(GENERATOR, IF wrong THEN (x + 1) % ORDER ELSE x)
\* the digests SHA-256 may return: the small integers, and one whose last byte
\* alone is below the group order
DigestSamples == {BigEndian(n, FIELD_BYTES) : n \in (0..MaxDigest) \cup {256}}

\* the digests SHA-256 may give input: the one it gave before, else any
Digests(input) == IF input \in DOMAIN sha256 THEN {sha256[input]} ELSE DigestSamples

\* the hash function once input has been hashed to digest
Hashing(input, digest) == (input :> digest) @@ sha256

----------------------------------------------------------------------------
\* The demonstration and the calls made on its proof

\* main up to the call of prove: y is x * G, or the point of another secret
Init ==
    /\ ctx \in {[sid |-> sid, pid |-> pid, x |-> x, y |-> PublicKey(x, wrong)] :
                    sid \in Sids, pid \in Pids, x \in Secrets, wrong \in BOOLEAN}
    /\ sha256 = << >>
    /\ r = NONE
    /\ c = NONE
    /\ proof = NONE
    /\ call = NONE
    /\ result = NONE
    /\ parsed = NONE
    /\ hex_str = NONE
    /\ decoded = NONE
    /\ tuples = NONE
    /\ hashed = NONE

\* DLogProof::prove(sid, pid, &x, y, base_point)
Prove ==
    /\ proof = NONE
    /\ \E rnd \in Scalar :
         LET input == HasherInput(ctx.sid, ctx.pid,
                                  <<GENERATOR, ctx.y, PointMul(GENERATOR, rnd)>>)
         IN \E digest \in Digests(input) :
              LET sha == Hashing(input, digest)
              IN /\ sha256' = sha
                 /\ r' = rnd
                 /\ c' = hash_points(ctx.sid, ctx.pid,
                                     <<GENERATOR, ctx.y, PointMul(GENERATOR, rnd)>>, sha)
                 /\ proof' = prove(ctx.sid, ctx.pid, ctx.x, ctx.y, GENERATOR, rnd, sha)
    /\ UNCHANGED <<ctx, call, result, parsed, hex_str, decoded, tuples, hashed>>

\* self.verify(sid, pid, y, base_point), the one call made on the proof
VerifyCall(self, sid, pid) ==
    /\ IsOk(proof)
    /\ call = NONE
    /\ LET input == HasherInput(sid, pid, <<GENERATOR, ctx.y, self.t>>)
       IN \E digest \in Digests(input) :
            LET sha == Hashing(input, digest)
            IN /\ sha256' = sha
               /\ call' = [self |-> self, sid |-> sid, pid |-> pid]
               /\ result' = verify(self, sid, pid, ctx.y, GENERATOR, sha)
    /\ UNCHANGED <<ctx, r, c, proof, parsed, hex_str, decoded, tuples, hashed>>

\* main's call: the proof, with the sid and pid it was made for
Verify == IsOk(proof) /\ VerifyCall(proof.val, ctx.sid, ctx.pid)

\* the proof, with another sid or pid
VerifyOtherSession ==
    /\ IsOk(proof)
    /\ \E sid \in Sids, pid \in Pids :
         /\ <<sid, pid>> # <<ctx.sid, ctx.pid>>
         /\ VerifyCall(proof.val, sid, pid)

\* the proof with another s
VerifyTamperedS ==
    /\ IsOk(proof)
    /\ \E s \in Scalar \ {proof.val.s} :
         VerifyCall(DLogProof(proof.val.t, s), ctx.sid, ctx.pid)

\* the proof with another t
VerifyTamperedT ==
    /\ IsOk(proof)
    /\ \E t \in CurvePoints \ {proof.val.t} :
         VerifyCall(DLogProof(t, proof.val.s), ctx.sid, ctx.pid)

Next == Prove \/ Verify \/ VerifyOtherSession \/ VerifyTamperedS \/ VerifyTamperedT

Spec == Init /\ [][Next]_vars

----------------------------------------------------------------------------
\* The JSON round trip of print_proof_json

\* serde_json::from_str of serde_json::to_string of the proof
JsonRoundTrip ==
    /\ IsOk(proof)
    /\ parsed = NONE
    /\ parsed' = from_str(to_string(proof.val))
    /\ UNCHANGED <<ctx, sha256, r, c, proof, call, result, hex_str, decoded, tuples, hashed>>

\* verify called on the proof read back
VerifyParsed == IsOk(parsed) /\ VerifyCall(parsed.val, ctx.sid, ctx.pid)

NextCodec == Prove \/ JsonRoundTrip \/ VerifyParsed

SpecCodec == Init /\ [][NextCodec]_vars

----------------------------------------------------------------------------
\* The decoders on arbitrary text

\* the hexadecimal digits of text in upper case
to_uppercase(text) == [i \in DOMAIN text |-> HEX_CHARS_UPPER[val(text[i]) + 1]]

\* a byte string as text: as encoded, in upper case, a digit short, a byte
\* short, with a character that is no digit, and both of the last two
Texts(bytes) ==
    LET hex == encode(bytes)
    IN {hex, to_uppercase(hex), SubSeq(hex, 1, Len(hex) - 1), SubSeq(hex, 1, Len(hex) - 2),
        <<"g">> \o SubSeq(hex, 2, Len(hex)), <<"g">> \o SubSeq(hex, 2, Len(hex) - 2)}

\* a number in 31, 32 and 33 bytes, and with the top byte of 32 set
ScalarBytes ==
    {BigEndian(n, w) : n \in 0..MaxEncoded, w \in (FIELD_BYTES - 1)..(FIELD_BYTES + 1)}
        \cup {<<1>> \o BigEndian(n, FIELD_BYTES - 1) : n \in 0..MaxEncoded}

\* every tag byte before every x, every pair of coordinates after 04, and
\* the encodings of the curve's points
PointBytesIn ==
    {<<tag>> \o BigEndian(n, FIELD_BYTES) : tag \in 0..6, n \in 0..MaxEncoded}
        \cup {<<4>> \o BigEndian(n, FIELD_BYTES) \o BigEndian(m, FIELD_BYTES) :
                n \in {7, 8, MaxEncoded}, m \in 0..MaxEncoded}
        \cup {to_encoded_point(pt) : pt \in CurvePoints}
        \cup {<<2, 1>> \o BigEndian(n, FIELD_BYTES - 1) : n \in 0..MaxEncoded}

DecoderInputs ==
    {[kind |-> "scalar", text |-> text] : text \in UNION {Texts(b) : b \in ScalarBytes}}
        \cup {[kind |-> "point", text |-> text] : text \in UNION {Texts(b) : b \in PointBytesIn}}

InitDecode ==
    /\ hex_str \in DecoderInputs
    /\ decoded = NONE
    /\ ctx = NONE
    /\ sha256 = << >>
    /\ r = NONE
    /\ c = NONE
    /\ proof = NONE
    /\ call = NONE
    /\ result = NONE
    /\ parsed = NONE
    /\ tuples = NONE
    /\ hashed = NONE

DeserializePoint ==
    /\ hex_str.kind = "point"
    /\ decoded = NONE
    /\ decoded' = deserialize_point_hex(hex_str.text)
    /\ UNCHANGED <<ctx, sha256, r, c, proof, call, result, parsed, hex_str, tuples, hashed>>

DeserializeScalar ==
    /\ hex_str.kind = "scalar"
    /\ decoded = NONE
    /\ decoded' = deserialize_scalar_hex(hex_str.text)
    /\ UNCHANGED <<ctx, sha256, r, c, proof, call, result, parsed, hex_str, tuples, hashed>>

NextDecode == DeserializePoint \/ DeserializeScalar

SpecDecode == InitDecode /\ [][NextDecode]_vars

----------------------------------------------------------------------------
\* The bytes hashed for two challenge inputs

RECURSIVE SeqsUpTo(_, _)
\* the sequences over alphabet of length at most n
SeqsUpTo(alphabet, n) ==
    IF n = 0 THEN {<<>>}
    ELSE LET shorter == SeqsUpTo(alphabet, n - 1)
         IN shorter \cup {Append(q, a) : q \in shorter, a \in alphabet}

\* sids of the bytes that also begin a pid or a point
TranscriptSids == SeqsUpTo({0, 1}, MaxSidLen)
TranscriptPids == {0, 1, 256}
TranscriptPoints == {IDENTITY, GENERATOR}

ChallengeInputs ==
    {[sid |-> sid, pid |-> pid, points |-> <<pt1, pt2, pt3>>] :
        sid \in TranscriptSids, pid \in TranscriptPids,
        pt1 \in TranscriptPoints, pt2 \in TranscriptPoints, pt3 \in TranscriptPoints}

InitTranscript ==
    /\ tuples \in ChallengeInputs \X ChallengeInputs
    /\ hashed = NONE
    /\ ctx = NONE
    /\ sha256 = << >>
    /\ r = NONE
    /\ c = NONE
    /\ proof = NONE
    /\ call = NONE
    /\ result = NONE
    /\ parsed = NONE
    /\ hex_str = NONE
    /\ decoded = NONE

\* the hasher's input for each of the two
HashInputs ==
    /\ hashed = NONE
    /\ hashed' = <<HasherInput(tuples[1].sid, tuples[1].pid, tuples[1].points),
                   HasherInput(tuples[2].sid, tuples[2].pid, tuples[2].points)>>
    /\ UNCHANGED <<ctx, sha256, r, c, proof, call, result, parsed, hex_str, decoded, tuples>>

NextTranscript == HashInputs

SpecTranscript == InitTranscript /\ [][NextTranscript]_vars

----------------------------------------------------------------------------
\* What the claims speak of

\* the caller's y is x * G
HonestKey == ctx.y = PointMul(GENERATOR, ctx.x)

\* verify was called on the proof as prove returned it
CalledOnProof == IsOk(proof) /\ call # NONE /\ call.self = proof.val

\* verify was called with the sid and pid of prove
CalledInSession == call # NONE /\ call.sid = ctx.sid /\ call.pid = ctx.pid

\* the bytes prove hashed, and the bytes the verify call hashed
ProveInput == HasherInput(ctx.sid, ctx.pid, <<GENERATOR, ctx.y, PointMul(GENERATOR, r)>>)
VerifyInput == HasherInput(call.sid, call.pid, <<GENERATOR, ctx.y, call.self.t>>)

\* a digest that is a scalar when read as a big-endian integer
IsScalarDigest(digest) == IntegerBE(digest) < ORDER

DerivationFailure == Err("Failed to convert hash to scalar")

\* C1: a proof made with y = x * G and verified with the same sid, pid, y
\* and G is accepted, whatever r prove sampled
Completeness ==
    (CalledOnProof /\ CalledInSession /\ HonestKey) => result = Ok(TRUE)

CompletenessWitness ==
    /\ CalledOnProof /\ CalledInSession /\ HonestKey
    /\ ctx.x = 2 /\ r = 3 /\ c = Ok(4)
    /\ proof.val.s = 4
    /\ result = Ok(TRUE)

\* C2 as stated: a proof made with y = x * G is never accepted under another
\* sid or pid, for every x, x = 0 included
SessionBindingNeverTrue ==
    (CalledOnProof /\ ~CalledInSession /\ HonestKey) => result # Ok(TRUE)

\* C2 amended: under another sid or pid the bytes hashed differ from those
\* prove hashed, and the proof is accepted exactly when the new digest is a
\* scalar and either x = 0 or the two digests are equal
SessionBinding ==
    (CalledOnProof /\ ~CalledInSession /\ HonestKey) =>
        /\ VerifyInput # ProveInput
        /\ result = Ok(TRUE) <=>
              /\ IsScalarDigest(sha256[VerifyInput])
              /\ ctx.x = 0 \/ sha256[VerifyInput] = sha256[ProveInput]

SessionBindingWitness ==
    /\ CalledOnProof /\ ~CalledInSession /\ HonestKey
    /\ ctx.x = 1 /\ ctx.pid = PID /\ call.pid = PID + 1 /\ call.sid = ctx.sid
    /\ c = Ok(2)
    /\ sha256[VerifyInput] = BigEndian(5, FIELD_BYTES)
    /\ result = Ok(FALSE)

\* C3 as stated: a proof made with y = x * G whose s or whose t was replaced
\* by another value is never accepted with the sid and pid of prove
TamperNeverTrue ==
    (IsOk(proof) /\ CalledInSession /\ call.self # proof.val /\ HonestKey)
        => result # Ok(TRUE)

\* C3 amended: with another s the answer is false; with another t the proof
\* is accepted only if y is not the identity and the digest of the new bytes
\* differs from the one prove got and is the scalar c' with t' + c' * y = s * G
TamperSensitivity ==
    (IsOk(proof) /\ CalledInSession /\ call.self # proof.val /\ HonestKey) =>
        /\ call.self.t = proof.val.t => result = Ok(FALSE)
        /\ (call.self.t # proof.val.t /\ result = Ok(TRUE)) =>
              /\ ~ctx.y.inf
              /\ sha256[VerifyInput] # sha256[ProveInput]
              /\ IsScalarDigest(sha256[VerifyInput])
              /\ PointAdd(call.self.t, PointMul(ctx.y, IntegerBE(sha256[VerifyInput])))
                    = PointMul(GENERATOR, proof.val.s)

TamperSensitivityWitness ==
    /\ IsOk(proof) /\ CalledInSession /\ HonestKey
    /\ ctx.x = 2 /\ c = Ok(3)
    /\ call.self.t = proof.val.t
    /\ call.self.s = (ORDER - proof.val.s) % ORDER
    /\ call.self.s # proof.val.s
    /\ result = Ok(FALSE)

\* C4 as stated: a proof made with a secret x whose x * G is not y is
\* rejected with the sid and pid of prove, for every challenge, 0 included
WrongSecretRejected ==
    (CalledOnProof /\ CalledInSession /\ ~HonestKey) => result = Ok(FALSE)

\* C4 amended: such a proof is rejected exactly when the challenge is not 0,
\* and accepted when it is 0
WrongSecretRejectedUnlessZero ==
    (CalledOnProof /\ CalledInSession /\ ~HonestKey) =>
        result = Ok(IntegerBE(sha256[ProveInput]) = 0)

WrongSecretWitness ==
    /\ CalledOnProof /\ CalledInSession /\ ~HonestKey
    /\ ctx.x = 1 /\ r = 2 /\ c = Ok(3)
    /\ result = Ok(FALSE)

\* C6: verify returns an error exactly when the digest of the bytes it hashes
\* is no scalar, and otherwise true or false as s * G = t + c * y holds;
\* prove returns an error exactly when the digest for its one r is no scalar,
\* the error is the one hash_points returned, and nothing else was hashed
ErrorVersusNegative ==
    /\ call # NONE =>
          IF IsScalarDigest(sha256[VerifyInput])
          THEN result = Ok(PointMul(GENERATOR, call.self.s)
                            = PointAdd(call.self.t,
                                       PointMul(ctx.y, IntegerBE(sha256[VerifyInput]))))
          ELSE result = DerivationFailure
    /\ proof # NONE =>
          /\ IsErr(proof) <=> ~IsScalarDigest(sha256[ProveInput])
          /\ IsErr(proof) => (proof = c /\ proof = DerivationFailure
                                /\ DOMAIN sha256 = {ProveInput})
          /\ IsOk(proof) => proof.val.t = PointMul(GENERATOR, r)

ErrorVersusNegativeWitness ==
    /\ CalledOnProof /\ ~CalledInSession
    /\ ~IsScalarDigest(sha256[VerifyInput])
    /\ result = DerivationFailure

\* C9: hash_points fails exactly when the digest read as a big-endian integer
\* is at least the group order, and otherwise returns that integer unreduced;
\* a second call on the same sid, pid and points returns the same challenge
ChallengeValidated ==
    /\ proof # NONE =>
          c = IF IntegerBE(sha256[ProveInput]) >= ORDER
              THEN DerivationFailure
              ELSE Ok(IntegerBE(sha256[ProveInput]))
    /\ (IsOk(proof) /\ CalledInSession /\ call.self.t = proof.val.t) =>
          result = Ok(PointMul(GENERATOR, call.self.s)
                        = PointAdd(call.self.t, PointMul(ctx.y, c.val)))

ChallengeValidatedWitness ==
    /\ proof # NONE
    /\ sha256[ProveInput] = BigEndian(ORDER, FIELD_BYTES)
    /\ c = DerivationFailure

----------------------------------------------------------------------------
\* The codec's claims

\* C5: the proof read back from its JSON text equals the proof prove
\* returned field by field, t the identity (r = 0) included, and verify
\* answers for it as it answers for the original
CodecRoundTrip ==
    /\ parsed # NONE =>
          /\ IsOk(parsed)
          /\ parsed.val.t = proof.val.t
          /\ parsed.val.s = proof.val.s
    /\ call # NONE =>
          result = verify(proof.val, ctx.sid, ctx.pid, ctx.y, GENERATOR, sha256)

CodecRoundTripWitness ==
    /\ IsOk(parsed) /\ call # NONE
    /\ r = 0 /\ proof.val.t = IDENTITY /\ parsed.val.t = IDENTITY
    /\ ctx.x = 2 /\ HonestKey
    /\ result = Ok(TRUE)

\* text is an even number of hexadecimal digits of either case
ValidHex(text) ==
    /\ Len(text) % 2 = 0
    /\ \A i \in 1..Len(text) :
          \E j \in 1..16 : text[i] \in {HEX_CHARS_LOWER[j], HEX_CHARS_UPPER[j]}

\* text with its digits in lower case
to_lowercase(text) == [i \in DOMAIN text |-> HEX_CHARS_LOWER[val(text[i]) + 1]]

\* C7: a scalar text is checked for hexadecimal digits, then for 32 bytes,
\* then for a value below the group order, and the first check to fail gives
\* the error; a point text that is no hexadecimal is an error, and a point is
\* returned only for an encoding of that point of the curve; no decoder
\* returns a value for anything else
CodecRejection ==
    /\ (decoded # NONE /\ hex_str.kind = "scalar") =>
          IF ~ValidHex(hex_str.text) THEN decoded = Err("Invalid hex encoding")
          ELSE IF Len(hex_str.text) # 2 * FIELD_BYTES
          THEN decoded = Err("Invalid length for Scalar")
          ELSE IF \E k \in Scalar : encode(to_repr(k)) = to_lowercase(hex_str.text)
          THEN /\ IsOk(decoded)
               /\ encode(to_repr(decoded.val)) = to_lowercase(hex_str.text)
          ELSE decoded = Err("Invalid Scalar value")
    /\ (decoded # NONE /\ hex_str.kind = "point") =>
          /\ ~ValidHex(hex_str.text) => decoded = Err("Invalid hex encoding")
          /\ IsErr(decoded) =>
                decoded.val \in {"Invalid hex encoding", "Invalid point bytes",
                                 "Invalid point encoding"}
          /\ IsOk(decoded) =>
                /\ decoded.val \in CurvePoints
                /\ to_lowercase(hex_str.text)
                      \in {encode(to_encoded_point(decoded.val)),
                           encode(to_encoded_point_uncompressed(decoded.val))}
          /\ (ValidHex(hex_str.text) /\ Len(hex_str.text) = 2 + 2 * FIELD_BYTES
                /\ \A pt \in CurvePoints :
                      encode(to_encoded_point(pt)) # to_lowercase(hex_str.text))
                => IsErr(decoded)

CodecRejectionWitness ==
    /\ hex_str.kind = "scalar"
    /\ hex_str.text = encode(BigEndian(ORDER, FIELD_BYTES + 1))
    /\ decoded = Err("Invalid length for Scalar")

\* C8: a point is returned only for the compressed encoding of a point that
\* is not the identity, a text of 2 + 2 * 32 hexadecimal digits
CanonicalPointOnly ==
    (decoded # NONE /\ hex_str.kind = "point" /\ IsOk(decoded)) =>
        /\ ~decoded.val.inf
        /\ Len(hex_str.text) = 2 + 2 * FIELD_BYTES

----------------------------------------------------------------------------
\* The challenge transcript's claim

\* tag, sid, the 4 bytes of pid and three points of 33 bytes each
IsTranscriptOf(bytes, input) ==
    LET n == Len(DOMAIN_SEPARATOR)
        m == Len(input.sid)
        w == FIELD_BYTES + 1
    IN /\ Len(bytes) = n + m + 4 + 3 * w
       /\ SubSeq(bytes, 1, n) = DOMAIN_SEPARATOR
       /\ SubSeq(bytes, n + 1, n + m) = input.sid
       /\ \A i \in 1..4 : bytes[n + m + i] = (input.pid \div (256 ^ (i - 1))) % 256
       /\ \A k \in 1..3 :
             SubSeq(bytes, n + m + 4 + (k - 1) * w + 1, n + m + 4 + k * w)
                = to_bytes(input.points[k])

\* C10: the bytes hashed are tag, sid, little-endian pid, G, y, t, and two
\* inputs that differ anywhere give different bytes
TranscriptUnambiguous ==
    hashed # NONE =>
        /\ IsTranscriptOf(hashed[1], tuples[1])
        /\ IsTranscriptOf(hashed[2], tuples[2])
        /\ hashed[1] = hashed[2] => tuples[1] = tuples[2]

TranscriptUnambiguousWitness ==
    /\ hashed # NONE
    /\ tuples[1].sid = <<1>> /\ tuples[1].pid = 0
    /\ tuples[2].sid = <<>> /\ tuples[2].pid = 1
    /\ tuples[1].points = tuples[2].points
    /\ hashed[1] # hashed[2]

====
